---- MODULE Spec2Model ----
(***************************************************************************)
(* Real-time presence, messaging and notification fanout of the social    *)
(* app server: the socket.io handlers of server/socket/socketHandlers.js  *)
(* and the REST routes that write messages, likes, comments, follows and  *)
(* notifications through Prisma.                                          *)
(***************************************************************************)
EXTENDS Integers, Sequences, FiniteSets, TLC

\* ---------------------------------------------------------------- bounds
MaxSockets == 3        \* connections accepted during one run
MaxMessages == 1       \* rows of the messages table
MaxNotifications == 1  \* rows of the notifications table
MaxComments == 1       \* rows of the comments table
MaxPage == 2           \* pages of a conversation the view can load
MaxLikeRequests == 2   \* POST /likes requests the server interleaves

\* ------------------------------------------------------------ value sets
Users == {"A", "B", "C"}          \* rows of the users table
UnknownId == "ghost"              \* an id with no row behind it
UserIds == Users \cup {UnknownId} \* what a client may put in a payload
Contents == {"", "hi"}            \* message contents: empty and non-empty
Posts == {"p1", "p2"}             \* rows of the posts table
PostIds == Posts \cup {UnknownId}
PostOwner == [p \in Posts |-> IF p = "p1" THEN "A" ELSE "B"]
DbFaults == {"none", "message", "notification"} \* the write that throws
NoArg == "-"
BadTokens == {"", "forged"}       \* no token in the handshake, or one jwt.verify rejects

VARIABLES
  socketUser,           \* socket.user.id of every accepted connection, by socket.id
  connected,            \* socket ids whose transport is open
  rooms,                \* room `user:<id>` -> socket ids joined to it
  activeConnections,    \* the Map userId -> socket.id
  messages,             \* prisma.message rows, id = index
  notifications,        \* prisma.notification rows, id = index
  notificationReceivers,\* prisma.notificationReceiver rows
  likes,                \* prisma.like rows
  follows,              \* prisma.follow rows
  comments,             \* prisma.comment rows
  emitted,              \* events the last handler pushed: {[to, event, data]}
  lastOp,               \* the last handler that ran, its input and its outcome
  view,                 \* a browser's ConversationPage: its state, its timer, what it emitted
  likeRequests          \* POST /likes requests taken one await at a time: where each stands

vars == <<socketUser, connected, rooms, activeConnections, messages,
          notifications, notificationReceivers, likes, follows, comments,
          emitted, lastOp, view, likeRequests>>

sockVars == <<socketUser, connected, rooms, activeConnections>>
dbVars == <<messages, notifications, notificationReceivers, likes, follows, comments>>
socialVars == <<likes, follows, comments>>

\* ------------------------------------------------------------- helpers
SocketIds == 1..Len(socketUser)

isUserOnline(userId) == userId \in DOMAIN activeConnections

\* a registry in which the first registration of an identity wins
MapSetIfAbsent(map, k, v) == [x \in DOMAIN map \cup {k} |-> IF x \in DOMAIN map THEN map[x] ELSE v]

\* activeConnections.set(userId, socket.id)
MapSet(map, k, v) == [x \in DOMAIN map \cup {k} |-> IF x = k THEN v ELSE map[x]]

\* a disconnect handler that forgets the registry
MapDeleteNothing(map, k) == map

\* activeConnections.delete(userId)
MapDelete(map, k) == [x \in DOMAIN map \ {k} |-> map[x]]

\* io.emit(event, data): every open connection
IoEmit(targets, event, data) == {[to |-> t, event |-> event, data |-> data] : t \in targets}

\* socket.broadcast.emit in place of socket.to(room).emit
ToRoomBroadcast(rms, socket, id) == (UNION {rms[r] : r \in DOMAIN rms}) \ {socket}

\* socket.to(`user:${id}`).emit(event, data): the room's members but the emitting socket
ToRoom(rms, socket, id) == IF id \in DOMAIN rms THEN rms[id] \ {socket} ELSE {}

\* a store without the foreign key of Message.receiverId and without the lookup
UserExistsUnchecked(id) == TRUE

\* the users row behind an id: prisma.user.findUnique of the routes, and the
\* foreign keys of Message.senderId / receiverId that make message.create throw
UserExists(id) == id \in Users

\* what a handler was given and what came of it; info is the id of the row it
\* wrote (send), the flag it found (read) or the rows it returned (fetch)
Op(op, socket, user, arg, content, status, info) ==
  [op |-> op, socket |-> socket, user |-> user, arg |-> arg,
   content |-> content, status |-> status, info |-> info]

\* a notification written without its optional actorId
NotificationRowNoActor(type, actorId, entityId) ==
  [id |-> Len(notifications) + 1, type |-> type, actorId |-> NoArg, entityId |-> entityId]

\* prisma.notification.create with a nested receivers.create: both rows or none
NotificationRow(type, actorId, entityId) ==
  [id |-> Len(notifications) + 1, type |-> type, actorId |-> actorId, entityId |-> entityId]

ReceiverRow(userId) ==
  [notificationId |-> Len(notifications) + 1, userId |-> userId, isRead |-> FALSE]

\* a schema whose isRead column defaults to true
MessageRowRead(content, senderId, receiverId) ==
  [id |-> Len(messages) + 1, content |-> content, senderId |-> senderId,
   receiverId |-> receiverId, isRead |-> TRUE]

\* prisma.message.create: isRead defaults to false
MessageRow(content, senderId, receiverId) ==
  [id |-> Len(messages) + 1, content |-> content, senderId |-> senderId,
   receiverId |-> receiverId, isRead |-> FALSE]

\* ---------------------------------------------------------------- init
Init ==
  /\ socketUser = <<>>
  /\ connected = {}
  /\ rooms = [u \in Users |-> {}]
  /\ activeConnections = <<>>
  /\ messages = <<>>
  /\ notifications = <<>>
  /\ notificationReceivers = <<>>
  /\ likes = {}
  /\ follows = {}
  /\ comments = <<>>
  /\ emitted = {}
  /\ lastOp = Op("init", 0, NoArg, NoArg, NoArg, "ok", NoArg)
  /\ view = [mounted |-> FALSE, me |-> NoArg, socket |-> FALSE, userId |-> NoArg, page |-> 1,
             newMessage |-> "", isTyping |-> FALSE, typingTimeout |-> NoArg,
             typing |-> [u \in Users |-> FALSE]]
  /\ likeRequests = <<>>

\* ------------------------------------------------------- socket handlers
\* an auth middleware that lets the handshake through when verification fails
HandshakeFailOpen(token) ==
  /\ token \in BadTokens
  /\ Len(socketUser) < MaxSockets
  /\ socketUser' = Append(socketUser, UnknownId)
  /\ connected' = connected \cup {Len(socketUser) + 1}
  /\ activeConnections' = MapSet(activeConnections, UnknownId, Len(socketUser) + 1)
  /\ emitted' = IoEmit(connected', "user:status", [userId |-> UnknownId, status |-> "online"])
  /\ lastOp' = Op("handshake", 0, NoArg, token, NoArg, "ok", NoArg)
  /\ UNCHANGED <<rooms, dbVars>>

\* io.use: the token is missing or jwt.verify throws, next(new Error(...)) ends
\* the handshake and the connection handler never runs
HandshakeRejected(token) ==
  /\ token \in BadTokens
  /\ emitted' = {}
  /\ lastOp' = Op("handshake", 0, NoArg, token, NoArg, "Authentication error", NoArg)
  /\ UNCHANGED <<sockVars, dbVars>>

\* a connection handler that announces with socket.broadcast.emit
ConnectionBroadcastOthers(userId) ==
  /\ Len(socketUser) < MaxSockets
  /\ LET socket == Len(socketUser) + 1 IN
       /\ socketUser' = Append(socketUser, userId)
       /\ connected' = connected \cup {socket}
       /\ activeConnections' = MapSet(activeConnections, userId, socket)
       /\ emitted' = IoEmit(connected, "user:status", [userId |-> userId, status |-> "online"])
       /\ rooms' = [rooms EXCEPT ![userId] = @ \cup {socket}]
       /\ lastOp' = Op("connection", socket, userId, NoArg, NoArg, "ok", NoArg)
  /\ UNCHANGED dbVars

\* io.on('connection'): a handshake that passed the auth middleware as userId
Connection(userId) ==
  /\ Len(socketUser) < MaxSockets
  /\ LET socket == Len(socketUser) + 1 IN
       /\ socketUser' = Append(socketUser, userId)
       /\ connected' = connected \cup {socket}
       /\ activeConnections' = MapSet(activeConnections, userId, socket)
       /\ emitted' = IoEmit(connected', "user:status", [userId |-> userId, status |-> "online"])
       /\ rooms' = [rooms EXCEPT ![userId] = @ \cup {socket}]
       /\ lastOp' = Op("connection", socket, userId, NoArg, NoArg, "ok", NoArg)
  /\ UNCHANGED dbVars

\* socket.on('disconnect'): the transport has closed and left its rooms
Disconnect(socket) ==
  /\ socket \in connected
  /\ LET userId == socketUser[socket] IN
       /\ connected' = connected \ {socket}
       /\ rooms' = [r \in DOMAIN rooms |-> rooms[r] \ {socket}]
       /\ activeConnections' = MapDelete(activeConnections, userId)
       /\ emitted' = IoEmit(connected', "user:status", [userId |-> userId, status |-> "offline"])
       /\ lastOp' = Op("disconnect", socket, userId, NoArg, NoArg, "ok", NoArg)
  /\ UNCHANGED <<socketUser, dbVars>>

\* a send handler whose two writes share one transaction
MessageSendInTransaction(socket, receiverId, content, fault) ==
  /\ socket \in connected
  /\ Len(messages) < MaxMessages
  /\ Len(notifications) < MaxNotifications
  /\ LET userId == socketUser[socket]
         message == MessageRow(content, userId, receiverId)
     IN
       IF fault = "message" \/ ~UserExists(receiverId)
       THEN
         /\ UNCHANGED <<messages, notifications, notificationReceivers>>
         /\ emitted' = {}
         /\ lastOp' = Op("message:send", socket, userId, receiverId, content, "error", 0)
       ELSE IF fault = "notification"
       THEN
         /\ UNCHANGED <<messages, notifications, notificationReceivers>>
         /\ emitted' = {}
         /\ lastOp' = Op("message:send", socket, userId, receiverId, content, "error", message.id)
       ELSE
         /\ messages' = Append(messages, message)
         /\ notifications' = Append(notifications, NotificationRow("MESSAGE", userId, NoArg))
         /\ notificationReceivers' = Append(notificationReceivers, ReceiverRow(receiverId))
         /\ emitted' = IoEmit(ToRoom(rooms, socket, receiverId), "message:receive", message)
                       \cup IoEmit(ToRoom(rooms, socket, receiverId), "notification:new", NoArg)
         /\ lastOp' = Op("message:send", socket, userId, receiverId, content, "ok", message.id)
  /\ UNCHANGED <<sockVars, socialVars>>

\* socket.on('message:send')
MessageSend(socket, receiverId, content, fault) ==
  /\ socket \in connected
  /\ Len(messages) < MaxMessages
  /\ Len(notifications) < MaxNotifications
  /\ LET userId == socketUser[socket]
         message == MessageRow(content, userId, receiverId)
     IN
       IF fault = "message" \/ ~UserExists(receiverId)
       THEN \* prisma.message.create throws (fault or foreign key): caught, logged
         /\ UNCHANGED <<messages, notifications, notificationReceivers>>
         /\ emitted' = {}
         /\ lastOp' = Op("message:send", socket, userId, receiverId, content, "error", 0)
       ELSE IF fault = "notification"
       THEN \* prisma.notification.create throws after the message row is written
         /\ messages' = Append(messages, message)
         /\ UNCHANGED <<notifications, notificationReceivers>>
         /\ emitted' = {}
         /\ lastOp' = Op("message:send", socket, userId, receiverId, content, "error", message.id)
       ELSE
         /\ messages' = Append(messages, message)
         /\ notifications' = Append(notifications, NotificationRow("MESSAGE", userId, NoArg))
         /\ notificationReceivers' = Append(notificationReceivers, ReceiverRow(receiverId))
         /\ emitted' = IoEmit(ToRoom(rooms, socket, receiverId), "message:receive", message)
                       \cup IoEmit(ToRoom(rooms, socket, receiverId), "notification:new", NoArg)
         /\ lastOp' = Op("message:send", socket, userId, receiverId, content, "ok", message.id)
  /\ UNCHANGED <<sockVars, socialVars>>

\* a read handler whose catch reports the failure back to the client
MessageReadSurfacing(socket, messageId, fault) ==
  /\ socket \in connected
  /\ LET userId == socketUser[socket] IN
       IF fault = "message" \/ messageId \notin DOMAIN messages
       THEN
         /\ UNCHANGED messages
         /\ emitted' = IoEmit({socket}, "error", [messageId |-> messageId])
         /\ lastOp' = Op("message:read", socket, userId, messageId, NoArg, "error", FALSE)
       ELSE
         /\ messages' = [messages EXCEPT ![messageId].isRead = TRUE]
         /\ emitted' = IoEmit(ToRoom(rooms, socket, messages[messageId].senderId),
                              "message:read", [messageId |-> messageId])
         /\ lastOp' = Op("message:read", socket, userId, messageId, NoArg, "ok",
                         messages[messageId].isRead)
  /\ UNCHANGED <<sockVars, notifications, notificationReceivers, socialVars>>

\* socket.on('message:read')
MessageRead(socket, messageId, fault) ==
  /\ socket \in connected
  /\ LET userId == socketUser[socket] IN
       IF fault = "message" \/ messageId \notin DOMAIN messages
       THEN \* prisma.message.update throws (fault or no such row): caught, logged
         /\ UNCHANGED messages
         /\ emitted' = {}
         /\ lastOp' = Op("message:read", socket, userId, messageId, NoArg, "error", FALSE)
       ELSE
         /\ messages' = [messages EXCEPT ![messageId].isRead = TRUE]
         /\ emitted' = IoEmit(ToRoom(rooms, socket, messages[messageId].senderId),
                              "message:read", [messageId |-> messageId])
         /\ lastOp' = Op("message:read", socket, userId, messageId, NoArg, "ok",
                         messages[messageId].isRead)
  /\ UNCHANGED <<sockVars, notifications, notificationReceivers, socialVars>>

\* a typing relay that names the typist by a value read from the payload
MessageTypingPayloadIdentity(socket, receiverId, isTyping) ==
  /\ socket \in connected
  /\ LET userId == socketUser[socket] IN
       /\ emitted' = IoEmit(ToRoom(rooms, socket, receiverId), "message:typing",
                            [userId |-> receiverId, isTyping |-> isTyping])
       /\ lastOp' = Op("message:typing", socket, userId, receiverId, NoArg, "ok", isTyping)
  /\ UNCHANGED <<sockVars, dbVars>>

\* a typing relay that announces with io.emit
MessageTypingToAll(socket, receiverId, isTyping) ==
  /\ socket \in connected
  /\ LET userId == socketUser[socket] IN
       /\ emitted' = IoEmit(connected, "message:typing",
                            [userId |-> userId, isTyping |-> isTyping])
       /\ lastOp' = Op("message:typing", socket, userId, receiverId, NoArg, "ok", isTyping)
  /\ UNCHANGED <<sockVars, dbVars>>

\* socket.on('message:typing')
MessageTyping(socket, receiverId, isTyping) ==
  /\ socket \in connected
  /\ LET userId == socketUser[socket] IN
       /\ emitted' = IoEmit(ToRoom(rooms, socket, receiverId), "message:typing",
                            [userId |-> userId, isTyping |-> isTyping])
       /\ lastOp' = Op("message:typing", socket, userId, receiverId, NoArg, "ok", isTyping)
  /\ UNCHANGED <<sockVars, dbVars>>

\* an event that arrives without its payload object: `const {...} = data` throws.
\* message:send and message:read destructure inside their try block, so the
\* catch logs the TypeError; message:typing has no try block, the exception
\* leaves the listener uncaught and ends the server process, which takes every
\* connection and the in-memory registry with it
MalformedEvent(socket, event) ==
  /\ socket \in connected
  /\ emitted' = {}
  /\ UNCHANGED <<socketUser, dbVars>>
  /\ LET userId == socketUser[socket] IN
       IF event = "message:typing"
       THEN /\ connected' = {}
            /\ rooms' = [r \in DOMAIN rooms |-> {}]
            /\ activeConnections' = <<>>
            /\ lastOp' = Op(event, socket, userId, NoArg, NoArg, "uncaught", FALSE)
       ELSE /\ UNCHANGED <<connected, rooms, activeConnections>>
            /\ lastOp' = Op(event, socket, userId, IF event = "message:read" THEN 0 ELSE NoArg,
                            NoArg, "error", IF event = "message:read" THEN FALSE ELSE 0)

\* ----------------------------------------------------------- REST routes
\* POST /api/messages (message.routes.js), req.user.id = userId
PostMessage(userId, receiverId, content, fault) ==
  /\ Len(messages) < MaxMessages
  /\ Len(notifications) < MaxNotifications
  /\ emitted' = {}
  /\ LET message == MessageRow(content, userId, receiverId) IN
       IF content = ""
       THEN /\ UNCHANGED <<messages, notifications, notificationReceivers>>
            /\ lastOp' = Op("POST /messages", 0, userId, receiverId, content, "400", 0)
       ELSE IF ~UserExists(receiverId)
       THEN /\ UNCHANGED <<messages, notifications, notificationReceivers>>
            /\ lastOp' = Op("POST /messages", 0, userId, receiverId, content, "404", 0)
       ELSE IF fault = "message"
       THEN /\ UNCHANGED <<messages, notifications, notificationReceivers>>
            /\ lastOp' = Op("POST /messages", 0, userId, receiverId, content, "500", 0)
       ELSE IF fault = "notification"
       THEN /\ messages' = Append(messages, message)
            /\ UNCHANGED <<notifications, notificationReceivers>>
            /\ lastOp' = Op("POST /messages", 0, userId, receiverId, content, "500", message.id)
       ELSE /\ messages' = Append(messages, message)
            /\ notifications' = Append(notifications, NotificationRow("MESSAGE", userId, NoArg))
            /\ notificationReceivers' = Append(notificationReceivers, ReceiverRow(receiverId))
            /\ lastOp' = Op("POST /messages", 0, userId, receiverId, content, "201", message.id)
  /\ UNCHANGED <<sockVars, socialVars>>

\* prisma.message.findMany of GET /conversation/:userId, in chronological order
Conversation(me, other) ==
  SelectSeq(messages, LAMBDA m : \/ (m.senderId = me /\ m.receiverId = other)
                                 \/ (m.senderId = other /\ m.receiverId = me))

\* GET /api/messages/conversation/:userId with the default page and limit
GetConversation(me, userId) ==
  /\ emitted' = {}
  /\ IF userId \notin Users
     THEN /\ UNCHANGED messages
          /\ lastOp' = Op("GET /conversation", 0, me, userId, NoArg, "404", <<>>)
     ELSE /\ messages' = [i \in DOMAIN messages |->
                            IF /\ messages[i].senderId = userId
                               /\ messages[i].receiverId = me
                            THEN [messages[i] EXCEPT !.isRead = TRUE]
                            ELSE messages[i]]
          /\ lastOp' = Op("GET /conversation", 0, me, userId, NoArg, "200",
                          Conversation(me, userId))
  /\ UNCHANGED <<sockVars, notifications, notificationReceivers, socialVars>>

\* POST /api/likes (like.routes.js)
LikePost(userId, postId) ==
  /\ emitted' = {}
  /\ IF postId \notin Posts
     THEN /\ UNCHANGED <<likes, notifications, notificationReceivers>>
          /\ lastOp' = Op("POST /likes", 0, userId, postId, NoArg, "404", 0)
     ELSE IF [userId |-> userId, postId |-> postId] \in likes
     THEN /\ UNCHANGED <<likes, notifications, notificationReceivers>>
          /\ lastOp' = Op("POST /likes", 0, userId, postId, NoArg, "400", 0)
     ELSE /\ likes' = likes \cup {[userId |-> userId, postId |-> postId]}
          /\ IF PostOwner[postId] # userId
             THEN /\ Len(notifications) < MaxNotifications
                  /\ notifications' = Append(notifications, NotificationRow("LIKE", userId, postId))
                  /\ notificationReceivers' =
                       Append(notificationReceivers, ReceiverRow(PostOwner[postId]))
                  /\ lastOp' = Op("POST /likes", 0, userId, postId, NoArg, "201",
                                  Len(notifications) + 1)
             ELSE /\ UNCHANGED <<notifications, notificationReceivers>>
                  /\ lastOp' = Op("POST /likes", 0, userId, postId, NoArg, "201", 0)
  /\ UNCHANGED <<sockVars, messages, follows, comments>>

\* a likes table without its unique index
LikeHasNoUniqueIndex(userId, postId) == FALSE

\* @@unique([userId, postId]) of model Like: what makes prisma.like.create throw
LikeUniqueViolation(userId, postId) == [userId |-> userId, postId |-> postId] \in likes

LikeRequest(userId, postId, pc, status) ==
  [userId |-> userId, postId |-> postId, pc |-> pc, status |-> status]

\* POST /api/likes up to its first write: the post lookup and the existingLike
\* lookup; a request that passes both goes on to prisma.like.create
LikeCheck(userId, postId) ==
  /\ Len(likeRequests) < MaxLikeRequests
  /\ emitted' = {}
  /\ UNCHANGED <<sockVars, dbVars, view>>
  /\ IF postId \notin Posts
     THEN /\ likeRequests' = Append(likeRequests, LikeRequest(userId, postId, "done", "404"))
          /\ lastOp' = Op("POST /likes", 0, userId, postId, NoArg, "404", 0)
     ELSE IF [userId |-> userId, postId |-> postId] \in likes
     THEN /\ likeRequests' = Append(likeRequests, LikeRequest(userId, postId, "done", "400"))
          /\ lastOp' = Op("POST /likes", 0, userId, postId, NoArg, "400", 0)
     ELSE /\ likeRequests' = Append(likeRequests, LikeRequest(userId, postId, "create", "pending"))
          /\ lastOp' = Op("POST /likes", 0, userId, postId, NoArg, "pending", 0)

\* prisma.like.create of request r; a throw is caught and answered 500
LikeCreate(r) ==
  /\ r \in DOMAIN likeRequests
  /\ likeRequests[r].pc = "create"
  /\ emitted' = {}
  /\ UNCHANGED <<sockVars, messages, notifications, notificationReceivers, follows, comments, view>>
  /\ LET userId == likeRequests[r].userId
         postId == likeRequests[r].postId
     IN
       IF LikeUniqueViolation(userId, postId)
       THEN /\ UNCHANGED likes
            /\ likeRequests' = [likeRequests EXCEPT ![r].pc = "done", ![r].status = "500"]
            /\ lastOp' = Op("POST /likes", 0, userId, postId, NoArg, "500", 0)
       ELSE /\ likes' = likes \cup {[userId |-> userId, postId |-> postId]}
            /\ IF PostOwner[postId] # userId
               THEN /\ likeRequests' = [likeRequests EXCEPT ![r].pc = "notify"]
                    /\ lastOp' = Op("POST /likes", 0, userId, postId, NoArg, "pending", 0)
               ELSE /\ likeRequests' = [likeRequests EXCEPT ![r].pc = "done", ![r].status = "201"]
                    /\ lastOp' = Op("POST /likes", 0, userId, postId, NoArg, "201", 0)

\* prisma.notification.create of request r, then the 201 answer
LikeNotify(r) ==
  /\ r \in DOMAIN likeRequests
  /\ likeRequests[r].pc = "notify"
  /\ emitted' = {}
  /\ UNCHANGED <<sockVars, messages, likes, follows, comments, view>>
  /\ LET userId == likeRequests[r].userId
         postId == likeRequests[r].postId
     IN
       /\ notifications' = Append(notifications, NotificationRow("LIKE", userId, postId))
       /\ notificationReceivers' = Append(notificationReceivers, ReceiverRow(PostOwner[postId]))
       /\ likeRequests' = [likeRequests EXCEPT ![r].pc = "done", ![r].status = "201"]
       /\ lastOp' = Op("POST /likes", 0, userId, postId, NoArg, "201", Len(notifications) + 1)

\* POST /api/comments (comment.routes.js)
CommentPost(userId, postId, content) ==
  /\ Len(comments) < MaxComments
  /\ emitted' = {}
  /\ IF content = ""
     THEN /\ UNCHANGED <<comments, notifications, notificationReceivers>>
          /\ lastOp' = Op("POST /comments", 0, userId, postId, content, "400", 0)
     ELSE IF postId \notin Posts
     THEN /\ UNCHANGED <<comments, notifications, notificationReceivers>>
          /\ lastOp' = Op("POST /comments", 0, userId, postId, content, "404", 0)
     ELSE /\ comments' = Append(comments, [content |-> content, userId |-> userId, postId |-> postId])
          /\ IF PostOwner[postId] # userId
             THEN /\ Len(notifications) < MaxNotifications
                  /\ notifications' = Append(notifications, NotificationRow("COMMENT", userId, postId))
                  /\ notificationReceivers' =
                       Append(notificationReceivers, ReceiverRow(PostOwner[postId]))
                  /\ lastOp' = Op("POST /comments", 0, userId, postId, content, "201",
                                  Len(notifications) + 1)
             ELSE /\ UNCHANGED <<notifications, notificationReceivers>>
                  /\ lastOp' = Op("POST /comments", 0, userId, postId, content, "201", 0)
  /\ UNCHANGED <<sockVars, messages, likes, follows>>

\* POST /api/follows (follow routes)
FollowUser(userId, followingId) ==
  /\ emitted' = {}
  /\ IF followingId = userId
     THEN /\ UNCHANGED <<follows, notifications, notificationReceivers>>
          /\ lastOp' = Op("POST /follows", 0, userId, followingId, NoArg, "400", 0)
     ELSE IF followingId \notin Users
     THEN /\ UNCHANGED <<follows, notifications, notificationReceivers>>
          /\ lastOp' = Op("POST /follows", 0, userId, followingId, NoArg, "404", 0)
     ELSE IF [followerId |-> userId, followingId |-> followingId] \in follows
     THEN /\ UNCHANGED <<follows, notifications, notificationReceivers>>
          /\ lastOp' = Op("POST /follows", 0, userId, followingId, NoArg, "400", 0)
     ELSE /\ Len(notifications) < MaxNotifications
          /\ follows' = follows \cup {[followerId |-> userId, followingId |-> followingId]}
          /\ notifications' = Append(notifications, NotificationRow("FOLLOW", userId, NoArg))
          /\ notificationReceivers' = Append(notificationReceivers, ReceiverRow(followingId))
          /\ lastOp' = Op("POST /follows", 0, userId, followingId, NoArg, "201",
                          Len(notifications) + 1)
  /\ UNCHANGED <<sockVars, messages, likes, comments>>

\* a count that forgets the isRead filter
UnreadCountAll(userId) ==
  Cardinality({i \in DOMAIN notificationReceivers : notificationReceivers[i].userId = userId})

\* prisma.notificationReceiver.count({where: {userId, isRead: false}})
UnreadCount(userId) ==
  Cardinality({i \in DOMAIN notificationReceivers :
                 /\ notificationReceivers[i].userId = userId
                 /\ notificationReceivers[i].isRead = FALSE})

\* GET /api/notifications/unread/count
GetUnreadCount(userId) ==
  /\ emitted' = {}
  /\ lastOp' = Op("GET /notifications/unread/count", 0, userId, NoArg, NoArg, "200",
                  UnreadCount(userId))
  /\ UNCHANGED <<sockVars, dbVars>>

\* an updateMany whose where clause has lost its userId
MarkAllReadEveryone(userId) ==
  /\ emitted' = {}
  /\ notificationReceivers' =
       [i \in DOMAIN notificationReceivers |-> [notificationReceivers[i] EXCEPT !.isRead = TRUE]]
  /\ lastOp' = Op("PUT /notifications/read-all", 0, userId, NoArg, NoArg, "200", 0)
  /\ UNCHANGED <<sockVars, messages, notifications, socialVars>>

\* PUT /api/notifications/read-all
MarkAllRead(userId) ==
  /\ emitted' = {}
  /\ notificationReceivers' =
       [i \in DOMAIN notificationReceivers |->
          IF notificationReceivers[i].userId = userId /\ notificationReceivers[i].isRead = FALSE
          THEN [notificationReceivers[i] EXCEPT !.isRead = TRUE]
          ELSE notificationReceivers[i]]
  /\ lastOp' = Op("PUT /notifications/read-all", 0, userId, NoArg, NoArg, "200", 0)
  /\ UNCHANGED <<sockVars, messages, notifications, socialVars>>

\* ------------------------------------------- ConversationPage.tsx (browser)
\* view.typing is the last isTyping value the page emitted to each receiver,
\* which is what the relay of message:typing hands to that receiver's indicator;
\* view.typingTimeout is the receiver captured by the pending setTimeout, if any
serverVars == <<sockVars, dbVars, emitted, lastOp>>

\* the page is rendered for /messages/:userId; its effect on [userId, page]
\* fetches the conversation
Mount(me, userId, socket) ==
  /\ UNCHANGED likeRequests
  /\ ~view.mounted
  /\ view' = [view EXCEPT !.mounted = TRUE, !.me = me, !.socket = socket, !.userId = userId,
                          !.page = 1, !.newMessage = "", !.isTyping = FALSE,
                          !.typingTimeout = NoArg]
  /\ GetConversation(me, userId)

\* the page leaves the screen: the effect's cleanup clears the timer
Unmount ==
  /\ UNCHANGED likeRequests
  /\ view.mounted
  /\ view' = [view EXCEPT !.mounted = FALSE, !.typingTimeout = NoArg]
  /\ UNCHANGED serverVars

\* the route parameter changes under the mounted page: cleanup, then the
\* effect runs again; the component's state is kept
SwitchConversation(userId) ==
  /\ UNCHANGED likeRequests
  /\ view.mounted
  /\ userId # view.userId
  /\ view' = [view EXCEPT !.userId = userId, !.typingTimeout = NoArg]
  /\ GetConversation(view.me, userId)

\* loadMoreMessages: setPage re-runs the effect on [userId, page], cleanup first
LoadMoreMessages ==
  /\ UNCHANGED likeRequests
  /\ view.mounted
  /\ view.page < MaxPage
  /\ view' = [view EXCEPT !.page = @ + 1, !.typingTimeout = NoArg]
  /\ GetConversation(view.me, view.userId)

\* handleInputChange
HandleInputChange(value) ==
  /\ UNCHANGED likeRequests
  /\ view.mounted
  /\ view' = [view EXCEPT !.newMessage = value,
                          !.isTyping = IF ~view.isTyping /\ view.socket THEN TRUE ELSE @,
                          !.typing[view.userId] = IF ~view.isTyping /\ view.socket THEN TRUE ELSE @,
                          !.typingTimeout = view.userId]
  /\ UNCHANGED serverVars

\* the callback of setTimeout(..., 3000)
TypingTimeout ==
  /\ UNCHANGED likeRequests
  /\ view.typingTimeout # NoArg
  /\ view' = [view EXCEPT !.isTyping = FALSE,
                          !.typing[view.typingTimeout] = IF view.socket THEN FALSE ELSE @,
                          !.typingTimeout = NoArg]
  /\ UNCHANGED serverVars

\* handleSubmit: POST /api/messages, and on a 2xx answer clear the input, the
\* typing state and the timer; an error answer is only logged
HandleSubmit(fault) ==
  /\ UNCHANGED likeRequests
  /\ view.mounted
  /\ view.newMessage # ""
  /\ PostMessage(view.me, view.userId, view.newMessage, fault)
  /\ view' = IF lastOp'.status = "201"
             THEN [view EXCEPT !.newMessage = "", !.isTyping = FALSE,
                               !.typing[view.userId] = IF view.socket THEN FALSE ELSE @,
                               !.typingTimeout = NoArg]
             ELSE view

\* ------------------------------------------------------- specifications
ConnectionStep ==
  /\ UNCHANGED <<view, likeRequests>>
  /\ \E userId \in Users : Connection(userId)
HandshakeRejectedStep ==
  /\ UNCHANGED <<view, likeRequests>>
  /\ \E token \in BadTokens : HandshakeRejected(token)
DisconnectStep ==
  /\ UNCHANGED <<view, likeRequests>>
  /\ \E socket \in connected : Disconnect(socket)
MessageSendStep ==
  /\ UNCHANGED <<view, likeRequests>>
  /\ \E socket \in connected, receiverId \in UserIds, content \in Contents, fault \in DbFaults :
       MessageSend(socket, receiverId, content, fault)
MessageReadStep ==
  /\ UNCHANGED <<view, likeRequests>>
  /\ \E socket \in connected, messageId \in 1..(Len(messages) + 1), fault \in {"none", "message"} :
       MessageRead(socket, messageId, fault)
MessageTypingStep ==
  /\ UNCHANGED <<view, likeRequests>>
  /\ \E socket \in connected, receiverId \in UserIds, isTyping \in BOOLEAN :
       MessageTyping(socket, receiverId, isTyping)
MalformedEventStep ==
  /\ UNCHANGED <<view, likeRequests>>
  /\ \E socket \in connected, event \in {"message:send", "message:read", "message:typing"} :
       MalformedEvent(socket, event)
PostMessageStep ==
  /\ UNCHANGED <<view, likeRequests>>
  /\ \E userId \in Users, receiverId \in UserIds, content \in Contents, fault \in DbFaults :
       PostMessage(userId, receiverId, content, fault)
GetConversationStep ==
  /\ UNCHANGED <<view, likeRequests>>
  /\ \E me \in Users, userId \in UserIds : GetConversation(me, userId)
LikePostStep ==
  /\ UNCHANGED <<view, likeRequests>>
  /\ \E userId \in Users, postId \in PostIds : LikePost(userId, postId)
CommentPostStep ==
  /\ UNCHANGED <<view, likeRequests>>
  /\ \E userId \in Users, postId \in PostIds, content \in Contents : CommentPost(userId, postId, content)
FollowUserStep ==
  /\ UNCHANGED <<view, likeRequests>>
  /\ \E userId \in Users, followingId \in UserIds : FollowUser(userId, followingId)
GetUnreadCountStep ==
  /\ UNCHANGED <<view, likeRequests>>
  /\ \E userId \in Users : GetUnreadCount(userId)
MarkAllReadStep ==
  /\ UNCHANGED <<view, likeRequests>>
  /\ \E userId \in Users : MarkAllRead(userId)

MountStep == \E me \in Users, userId \in Users, socket \in BOOLEAN : Mount(me, userId, socket)
SwitchConversationStep == \E userId \in Users : SwitchConversation(userId)
HandleInputChangeStep == \E value \in Contents : HandleInputChange(value)
HandleSubmitStep == \E fault \in DbFaults : HandleSubmit(fault)

LikeCheckStep == \E userId \in Users, postId \in PostIds : LikeCheck(userId, postId)
LikeCreateStep == \E r \in DOMAIN likeRequests : LikeCreate(r)
LikeNotifyStep == \E r \in DOMAIN likeRequests : LikeNotify(r)

\* like requests whose awaits interleave
NextLikes ==
  \/ LikeCheckStep
  \/ LikeCreateStep
  \/ LikeNotifyStep

\* the conversation page of one browser against the message routes
NextConversationView ==
  \/ MountStep
  \/ Unmount
  \/ SwitchConversationStep
  \/ LoadMoreMessages
  \/ HandleInputChangeStep
  \/ TypingTimeout
  \/ HandleSubmitStep

\* the connection registry and presence on their own
NextRegistry ==
  \/ ConnectionStep
  \/ HandshakeRejectedStep
  \/ DisconnectStep

\* direct messages, read receipts and typing over the live connections
NextMessaging ==
  \/ ConnectionStep
  \/ DisconnectStep
  \/ MessageSendStep
  \/ MessageReadStep
  \/ PostMessageStep
  \/ GetConversationStep

\* the typing relay over the live connections
NextTyping ==
  \/ ConnectionStep
  \/ DisconnectStep
  \/ MessageTypingStep

\* the events a connection addresses to another identity
NextRouting ==
  \/ ConnectionStep
  \/ DisconnectStep
  \/ MessageSendStep
  \/ MessageTypingStep

\* socket events that fail inside their handler: store faults and missing payloads
NextFaults ==
  \/ ConnectionStep
  \/ DisconnectStep
  \/ MessageSendStep
  \/ MessageReadStep
  \/ MalformedEventStep

\* likes, comments and follows with their notifications, over the live connections
NextSocial ==
  \/ ConnectionStep
  \/ DisconnectStep
  \/ LikePostStep
  \/ CommentPostStep
  \/ FollowUserStep

\* like notifications and their unread counter, over the live connections
NextNotifications ==
  \/ ConnectionStep
  \/ DisconnectStep
  \/ LikePostStep
  \/ MarkAllReadStep
  \/ GetUnreadCountStep

Next ==
  \/ NextLikes
  \/ NextConversationView
  \/ NextRouting
  \/ NextRegistry
  \/ NextNotifications
  \/ NextMessaging
  \/ NextFaults
  \/ NextTyping
  \/ NextSocial

Spec == Init /\ [][Next]_vars
\* a timer that is armed and not cleared does fire; the user owes no action
SpecConversationView == Init /\ [][NextConversationView]_vars /\ WF_vars(TypingTimeout)
SpecFaults == Init /\ [][NextFaults]_vars
SpecNotifications == Init /\ [][NextNotifications]_vars
SpecRouting == Init /\ [][NextRouting]_vars
SpecLikes == Init /\ [][NextLikes]_vars
SpecRegistry == Init /\ [][NextRegistry]_vars
SpecMessaging == Init /\ [][NextMessaging]_vars
SpecSocial == Init /\ [][NextSocial]_vars
SpecTyping == Init /\ [][NextTyping]_vars

\* ===================================================================
\* Properties
\* ===================================================================
SocketsOf(userId) == {s \in SocketIds : socketUser[s] = userId}
LiveSocketsOf(userId) == SocketsOf(userId) \cap connected
LatestSocket(userId) == CHOOSE s \in SocketsOf(userId) : \A t \in SocketsOf(userId) : t <= s
Superseded(s) == \E t \in SocketIds : t > s /\ socketUser[t] = socketUser[s]
Events(event) == {e \in emitted : e.event = event}
SendOps == {"message:send", "POST /messages"}
SocialOps == {"POST /likes", "POST /comments", "POST /follows"}
RecipientsOf(notificationId) ==
  {notificationReceivers[i].userId : i \in {j \in DOMAIN notificationReceivers :
                                            notificationReceivers[j].notificationId = notificationId}}

\* C1: while the newest connection of an identity is open, the identity is
\* online, whatever older connections of that identity have disconnected
C1_StaleDisconnectIsNoOp ==
  \A userId \in Users :
    (SocketsOf(userId) # {} /\ LatestSocket(userId) \in connected) => isUserOnline(userId)

\* C2: a message:send from A to a connected B (A # B) that ran without error
\* pushes exactly one message:receive, to a connection of B, carrying the
\* persisted row with the given content, senderId = A and isRead = false
C2_ExactlyOneDelivery ==
  (/\ lastOp.op = "message:send"
   /\ lastOp.status = "ok"
   /\ lastOp.arg # lastOp.user
   /\ LiveSocketsOf(lastOp.arg) # {})
  => /\ Cardinality(Events("message:receive")) = 1
     /\ \A e \in Events("message:receive") :
          /\ socketUser[e.to] = lastOp.arg
          /\ e.data = messages[lastOp.info]
          /\ e.data.content = lastOp.content
          /\ e.data.senderId = lastOp.user
          /\ e.data.isRead = FALSE

\* C3: a message:read by the receiver for a message that was already read
\* does not fail, leaves isRead true and pushes no message:read event
C3_SecondReadSilent ==
  (/\ lastOp.op = "message:read"
   /\ lastOp.arg \in DOMAIN messages
   /\ lastOp.user = messages[lastOp.arg].receiverId
   /\ lastOp.user # messages[lastOp.arg].senderId
   /\ lastOp.info = TRUE)
  => /\ lastOp.status = "ok"
     /\ messages[lastOp.arg].isRead
     /\ Events("message:read") = {}

\* C4: a send with empty content, by the socket event or by POST /messages,
\* is rejected: it writes no message row and pushes nothing, so no stored
\* message has empty content
C4_EmptyContentRejected ==
  /\ \A i \in DOMAIN messages : messages[i].content # ""
  /\ (lastOp.op \in SendOps /\ lastOp.content = "")
     => (lastOp.status \in {"error", "400"} /\ lastOp.info = 0 /\ emitted = {})

\* C5: no notification receiver row names the actor of its notification
C5_NoSelfNotification ==
  \A i \in DOMAIN notificationReceivers :
    notificationReceivers[i].userId #
      notifications[notificationReceivers[i].notificationId].actorId

\* the notification a handler wrote, 0 if it wrote none
FanoutOf(op) ==
  IF op.op \in SocialOps THEN op.info
  ELSE IF op.op \in SendOps /\ op.status \in {"ok", "201"} THEN Len(notifications)
  ELSE 0

\* C6: a handler that wrote a notification pushed notification:new to every
\* open connection of each recipient, and to no one else
C6_FanoutPushesToConnected ==
  FanoutOf(lastOp) # 0 =>
    {e.to : e \in Events("notification:new")} =
      UNION {LiveSocketsOf(userId) : userId \in RecipientsOf(FanoutOf(lastOp))}

\* C7: a connection that a later connection of the same identity has
\* superseded is no target of message, read, typing or notification events
C7_SupersededGetsNothing ==
  \A e \in emitted :
    e.event \in {"message:receive", "message:read", "message:typing", "notification:new"}
      => ~Superseded(e.to)

\* C8: right after a connection of A registers A is online; right after the
\* newest connection of A disconnects A is offline; an identity that never
\* connected is offline
C8_OnlineIffRegistered ==
  /\ lastOp.op = "connection" => isUserOnline(lastOp.user)
  /\ (lastOp.op = "disconnect" /\ lastOp.socket = LatestSocket(lastOp.user))
       => ~isUserOnline(lastOp.user)
  /\ \A userId \in Users : SocketsOf(userId) = {} => ~isUserOnline(userId)

C8_Witness ==
  /\ lastOp.op = "disconnect"
  /\ lastOp.socket = LatestSocket(lastOp.user)
  /\ ~isUserOnline(lastOp.user)
  /\ \E userId \in Users : isUserOnline(userId)

\* C9: the registry holds one handle per identity, and it is the handle of
\* the identity's most recent registration
C9_LastRegisteredWins ==
  /\ DOMAIN activeConnections \subseteq Users
  /\ \A userId \in DOMAIN activeConnections :
       /\ activeConnections[userId] \in SocketsOf(userId)
       /\ activeConnections[userId] = LatestSocket(userId)
  /\ lastOp.op = "connection" => activeConnections[lastOp.user] = lastOp.socket

C9_Witness ==
  /\ lastOp.op = "connection"
  /\ Cardinality(LiveSocketsOf(lastOp.user)) >= 2
  /\ activeConnections[lastOp.user] = lastOp.socket

\* a message:send that ran without error for a receiver with no open connection
SentWhileDisconnected(op) ==
  /\ op.op = "message:send"
  /\ op.status = "ok"
  /\ LiveSocketsOf(op.arg) = {}

\* C10: a message:send to a disconnected receiver pushes no message:receive
\* and stores the message unread; a message:receive is pushed only by the
\* handler that has just created the message, so none follows later; and the
\* receiver's next conversation fetch returns the stored message, unread
C10_OfflineSendIsStoredNotDelivered ==
  /\ [](SentWhileDisconnected(lastOp) =>
          /\ Events("message:receive") = {}
          /\ lastOp.info \in DOMAIN messages
          /\ messages[lastOp.info] =
               [id |-> lastOp.info, content |-> lastOp.content, senderId |-> lastOp.user,
                receiverId |-> lastOp.arg, isRead |-> FALSE])
  /\ [](\A e \in Events("message:receive") :
          lastOp.op = "message:send" /\ e.data.id = lastOp.info /\ lastOp.info = Len(messages))
  /\ [][(/\ SentWhileDisconnected(lastOp)
         /\ lastOp'.op = "GET /conversation"
         /\ lastOp'.user = lastOp.arg
         /\ lastOp'.arg = lastOp.user)
        => \E j \in DOMAIN lastOp'.info : lastOp'.info[j] = messages[lastOp.info]]_vars

C10_Witness ==
  /\ SentWhileDisconnected(lastOp)
  /\ lastOp.arg # lastOp.user
  /\ connected # {lastOp.socket}
  /\ emitted = {}
  /\ messages[lastOp.info].isRead = FALSE

\* C11: a send whose receiverId has no users row fails on both paths: the
\* step writes no message and no notification row and pushes nothing, so no
\* stored message or receiver row points at a missing user
C11_UnknownReceiverRejected ==
  /\ [](/\ \A i \in DOMAIN messages : messages[i].receiverId \in Users
        /\ \A i \in DOMAIN notificationReceivers : notificationReceivers[i].userId \in Users
        /\ (lastOp.op \in SendOps /\ lastOp.arg \notin Users)
             => (lastOp.status \in {"error", "400", "404"} /\ lastOp.info = 0 /\ emitted = {}))
  /\ [][(lastOp'.op \in SendOps /\ lastOp'.arg \notin Users)
          => UNCHANGED <<messages, notifications, notificationReceivers>>]_vars

C11_Witness ==
  /\ lastOp.op = "message:send"
  /\ lastOp.arg = UnknownId
  /\ lastOp.content = "hi"
  /\ lastOp.status = "error"
  /\ Cardinality(connected) >= 2
  /\ messages = <<>>

SendSucceeded(op) == op.op \in SendOps /\ op.status \in {"ok", "201"}
ReceiverRowsOf(notificationId) ==
  {i \in DOMAIN notificationReceivers : notificationReceivers[i].notificationId = notificationId}
MessagesFor(userId) == Cardinality({i \in DOMAIN messages : messages[i].receiverId = userId})
MessageNotificationsFor(userId) ==
  Cardinality({i \in DOMAIN notificationReceivers :
                 /\ notificationReceivers[i].userId = userId
                 /\ notifications[notificationReceivers[i].notificationId].type = "MESSAGE"})

\* C12: a send that succeeded wrote one MESSAGE notification with the sender
\* as actor and one unread receiver row for the receiver, connected or not;
\* the step adds exactly one row to each table and nothing else adds a
\* notification, so while every send has succeeded the MESSAGE notifications
\* of a user are as many as the messages stored for them
C12_OneFanoutPerMessage ==
  /\ [](SendSucceeded(lastOp) =>
          /\ notifications[Len(notifications)] =
               [id |-> Len(notifications), type |-> "MESSAGE",
                actorId |-> lastOp.user, entityId |-> NoArg]
          /\ Cardinality(ReceiverRowsOf(Len(notifications))) = 1
          /\ \A i \in ReceiverRowsOf(Len(notifications)) :
               /\ notificationReceivers[i].userId = lastOp.arg
               /\ notificationReceivers[i].isRead = FALSE
          /\ messages[lastOp.info].receiverId = lastOp.arg)
  /\ [](\A userId \in Users :
          /\ MessageNotificationsFor(userId) <= MessagesFor(userId)
          /\ Len(notifications) = Len(messages)
               => MessageNotificationsFor(userId) = MessagesFor(userId))
  /\ [][SendSucceeded(lastOp') /\ messages' # messages =>
          /\ Len(messages') = Len(messages) + 1
          /\ Len(notifications') = Len(notifications) + 1
          /\ Len(notificationReceivers') = Len(notificationReceivers) + 1]_vars
  /\ [][notifications' # notifications \/ notificationReceivers' # notificationReceivers
          => SendSucceeded(lastOp') /\ messages' # messages]_vars

C12_Witness ==
  /\ lastOp.op = "message:send"
  /\ lastOp.status = "ok"
  /\ lastOp.arg # lastOp.user
  /\ LiveSocketsOf(lastOp.arg) = {}
  /\ SocketsOf(lastOp.arg) # {}
  /\ MessageNotificationsFor(lastOp.arg) = 1

PresenceEvents(userId, status, targets) ==
  {[to |-> t, event |-> "user:status", data |-> [userId |-> userId, status |-> status]] :
     t \in targets}

\* C13: a connection pushes the identity's online event to every open
\* connection, the new one included, and a disconnect pushes its offline
\* event to every connection that remains; the new connection is handed that
\* one event only, nothing that was emitted before it connected
C13_PresenceBroadcast ==
  /\ lastOp.op = "connection" =>
       /\ lastOp.socket \in connected
       /\ emitted = PresenceEvents(lastOp.user, "online", connected)
       /\ Cardinality({e \in emitted : e.to = lastOp.socket}) = 1
  /\ lastOp.op = "disconnect" =>
       /\ lastOp.socket \notin connected
       /\ emitted = PresenceEvents(lastOp.user, "offline", connected)

C13_Witness ==
  /\ lastOp.op = "disconnect"
  /\ Cardinality(connected) = 2
  /\ Cardinality(emitted) = 2
  /\ \E s \in connected : socketUser[s] # lastOp.user

\* C14: a presence event marks a real transition: online is broadcast only
\* when the identity had no other open connection, offline only when none
\* of its connections remains open
C14_PresenceOncePerTransition ==
  /\ lastOp.op = "connection" => LiveSocketsOf(lastOp.user) = {lastOp.socket}
  /\ (lastOp.op = "disconnect" /\ emitted # {}) => LiveSocketsOf(lastOp.user) = {}

\* C19: a handshake without a verified identity is refused with an
\* authentication error: the step leaves the registry, the rooms, the open
\* connections and the store as they were and pushes no event
C19_RejectedHandshakeLeavesNoState ==
  /\ [](lastOp.op = "handshake" =>
          /\ lastOp.status = "Authentication error"
          /\ emitted = {}
          /\ UnknownId \notin DOMAIN activeConnections
          /\ \A s \in SocketIds : socketUser[s] \in Users)
  /\ [][lastOp'.op = "handshake" => UNCHANGED <<sockVars, dbVars>>]_vars

C19_Witness ==
  /\ lastOp.op = "handshake"
  /\ lastOp.arg = "forged"
  /\ connected # {}
  /\ DOMAIN activeConnections # {}

\* C15: a message:read that succeeded pushes {messageId} to the open
\* connections of the message's sender and to no other identity, and pushes
\* nothing when the reader is the sender
C15_ReadReceiptToSenderOnly ==
  (lastOp.op = "message:read" /\ lastOp.status = "ok") =>
    LET senderId == messages[lastOp.arg].senderId IN
      /\ \A e \in emitted :
           /\ e.event = "message:read"
           /\ e.data = [messageId |-> lastOp.arg]
           /\ socketUser[e.to] = senderId
      /\ lastOp.user # senderId => {e.to : e \in emitted} = LiveSocketsOf(senderId)
      /\ lastOp.user = senderId => emitted = {}

\* C16: a message:read naming no stored message pushes nothing, to the
\* client or anyone else; the step leaves every stored row, the registry and
\* the rooms as they were, and the connection stays open and joined
C16_UnknownMessageReadTolerated ==
  /\ []((lastOp.op = "message:read" /\ lastOp.arg \notin DOMAIN messages) =>
          /\ emitted = {}
          /\ lastOp.socket \in connected
          /\ lastOp.socket \in rooms[lastOp.user])
  /\ [][(lastOp'.op = "message:read" /\ lastOp'.arg \notin DOMAIN messages)
          => UNCHANGED <<sockVars, dbVars>>]_vars

C16_Witness ==
  /\ lastOp.op = "message:read"
  /\ lastOp.arg \notin DOMAIN messages
  /\ messages # <<>>
  /\ \A i \in DOMAIN messages : ~messages[i].isRead
  /\ Cardinality(connected) >= 2

\* C17: a stored message keeps its id and, once read, stays read through
\* every step; a message that a step adds starts unread
C17_IsReadNeverReverses ==
  [][/\ \A i \in DOMAIN messages :
          /\ i \in DOMAIN messages'
          /\ messages[i].isRead => messages'[i].isRead
     /\ \A i \in DOMAIN messages' \ DOMAIN messages : ~messages'[i].isRead]_vars

C17_Witness ==
  /\ lastOp.op = "GET /conversation"
  /\ lastOp.status = "200"
  /\ \E j \in DOMAIN lastOp.info : lastOp.info[j].isRead /\ messages[lastOp.info[j].id].isRead

\* C18: a socket event whose handler failed (a store error or a missing
\* payload) leaves every connection open, joined to its room and registered
C18_HandlerFailureIsContained ==
  [][(lastOp'.socket # 0 /\ lastOp'.status \in {"error", "uncaught"})
       => UNCHANGED <<connected, rooms, activeConnections>>]_vars

LikeNotified(op) == op.op = "POST /likes" /\ op.status = "201" /\ op.info # 0
UnreadRowsIn(rows, userId) ==
  Len(SelectSeq(rows, LAMBDA r : r.userId = userId /\ ~r.isRead))
UnreadRows(userId) == UnreadRowsIn(notificationReceivers, userId)

\* C20: a like of another user's post stores one LIKE notification and one
\* unread receiver row for the post's owner and raises the owner's unread
\* rows by one; a connection made afterwards is pushed no notification:new;
\* the unread-count route answers the number of the caller's unread rows
C20_LikeNotificationWaitsForPoll ==
  /\ [](LikeNotified(lastOp) =>
          /\ notifications[lastOp.info] =
               [id |-> lastOp.info, type |-> "LIKE", actorId |-> lastOp.user,
                entityId |-> lastOp.arg]
          /\ Cardinality(ReceiverRowsOf(lastOp.info)) = 1
          /\ \A i \in ReceiverRowsOf(lastOp.info) :
               /\ notificationReceivers[i].userId = PostOwner[lastOp.arg]
               /\ notificationReceivers[i].isRead = FALSE)
  /\ [][LikeNotified(lastOp') /\ likes' # likes =>
          /\ Len(notifications') = Len(notifications) + 1
          /\ \A u \in Users :
               UnreadRowsIn(notificationReceivers', u) =
                 UnreadRowsIn(notificationReceivers, u)
                   + (IF u = PostOwner[lastOp'.arg] THEN 1 ELSE 0)]_vars
  /\ [](lastOp.op = "connection" => Events("notification:new") = {})
  /\ [](lastOp.op = "GET /notifications/unread/count" => lastOp.info = UnreadRows(lastOp.user))

C20_Witness ==
  /\ lastOp.op = "GET /notifications/unread/count"
  /\ lastOp.info = 1
  /\ LiveSocketsOf(lastOp.user) # {}
  /\ Len(notifications) = 1
  /\ notifications[1].type = "LIKE"

C23_TypingEventuallyCleared ==
  \A r \in Users : (view.typing[r] = TRUE) ~> (view.typing[r] = FALSE)

\* a send whose notification write failed after its message write
NotificationWriteFailed(op) ==
  op.op \in SendOps /\ op.status \in {"error", "500"} /\ op.info # 0

\* C24: a send whose notification write fails has added its message row and
\* no notification or receiver row; no step removes or rewrites a stored
\* message apart from its isRead flag; and every notification row has exactly
\* one receiver row, every receiver row its notification
C24_MessageSurvivesFailedFanout ==
  /\ [][NotificationWriteFailed(lastOp') /\ messages' # messages =>
          /\ messages' = Append(messages,
               [id |-> lastOp'.info, content |-> lastOp'.content, senderId |-> lastOp'.user,
                receiverId |-> lastOp'.arg, isRead |-> FALSE])
          /\ UNCHANGED <<notifications, notificationReceivers>>]_vars
  /\ [](NotificationWriteFailed(lastOp) =>
          /\ lastOp.info \in DOMAIN messages
          /\ Len(notifications) < Len(messages))
  /\ [][\A i \in DOMAIN messages :
          /\ i \in DOMAIN messages'
          /\ [messages'[i] EXCEPT !.isRead = FALSE] = [messages[i] EXCEPT !.isRead = FALSE]]_vars
  /\ [](/\ \A n \in DOMAIN notifications : Cardinality(ReceiverRowsOf(n)) = 1
        /\ \A i \in DOMAIN notificationReceivers :
             notificationReceivers[i].notificationId \in DOMAIN notifications)

C24_Witness ==
  /\ NotificationWriteFailed(lastOp)
  /\ lastOp.op = "message:send"
  /\ LiveSocketsOf(lastOp.arg) # {}
  /\ Len(messages) = 1
  /\ notifications = <<>>
  /\ notificationReceivers = <<>>

\* C25: an identity has an open connection joined to its room exactly when
\* the registry has an entry for it
C25_RoutingAgreesWithRegistry ==
  \A userId \in Users : (rooms[userId] \cap connected # {}) <=> isUserOnline(userId)

\* C26: a message stored for a connected receiver, by the socket event or by
\* POST /messages, pushes the same events: message:receive with the stored
\* row and notification:new, to the open connections of the receiver
C26_SendPathsEquivalent ==
  (SendSucceeded(lastOp) /\ lastOp.arg # lastOp.user /\ LiveSocketsOf(lastOp.arg) # {}) =>
    emitted = IoEmit(LiveSocketsOf(lastOp.arg), "message:receive", messages[lastOp.info])
              \cup IoEmit(LiveSocketsOf(lastOp.arg), "notification:new", NoArg)

\* C27: a step that turns a message's isRead to true is a request of that
\* message's receiver, and a message:read event is pushed only when the
\* receiver of the message asked for it
C27_OnlyReceiverMarksRead ==
  /\ [][\A i \in DOMAIN messages :
          (~messages[i].isRead /\ messages'[i].isRead) => lastOp'.user = messages[i].receiverId]_vars
  /\ [](Events("message:read") # {} => lastOp.user = messages[lastOp.arg].receiverId)

\* C28: a message:send that stored its message for a connected receiver has
\* pushed message:receive with that row to the receiver, whether or not the
\* notification write that follows succeeded
C28_DeliveryIndependentOfFanout ==
  (/\ lastOp.op = "message:send"
   /\ lastOp.info # 0
   /\ lastOp.arg # lastOp.user
   /\ LiveSocketsOf(lastOp.arg) # {})
  => \E e \in Events("message:receive") :
       socketUser[e.to] = lastOp.arg /\ e.data = messages[lastOp.info]

AddressedEvents == {"message:receive", "message:typing", "notification:new"}

\* C29: a message:receive, message:typing or notification:new event reaches
\* only open connections authenticated as the receiverId it was addressed to,
\* and the senderId of a delivered message and the userId of a typing event
\* are the identity authenticated on the connection that emitted the request
C29_AddressedEventsConfined ==
  \A e \in emitted : e.event \in AddressedEvents =>
    /\ lastOp.op \in {"message:send", "message:typing"}
    /\ e.to \in connected
    /\ socketUser[e.to] = lastOp.arg
    /\ e.event = "message:receive" => e.data.senderId = socketUser[lastOp.socket]
    /\ e.event = "message:typing" => e.data.userId = socketUser[lastOp.socket]

C29_Witness ==
  /\ lastOp.op = "message:typing"
  /\ emitted # {}
  /\ lastOp.arg # lastOp.user
  /\ \E s \in connected : socketUser[s] \notin {lastOp.arg, lastOp.user}
  /\ messages # <<>>

LikesAnswered(userId, postId, status) ==
  {r \in DOMAIN likeRequests :
     /\ likeRequests[r].userId = userId
     /\ likeRequests[r].postId = postId
     /\ likeRequests[r].status = status}
LikeNotificationsOf(userId, postId) ==
  {n \in DOMAIN notifications :
     /\ notifications[n].type = "LIKE"
     /\ notifications[n].actorId = userId
     /\ notifications[n].entityId = postId}

\* C30: however the like requests of one user for one post interleave, at
\* most one of them is answered 201, every like.create that went through
\* added a row the table did not have, and the post's owner has at most one
\* LIKE notification of that user for that post; a request answered 400, 404
\* or 500 has written nothing
C30_ConcurrentLikesOnce ==
  /\ [](\A userId \in Users, postId \in Posts :
          /\ Cardinality(LikesAnswered(userId, postId, "201")) <= 1
          /\ Cardinality(LikeNotificationsOf(userId, postId)) <= 1
          /\ LikesAnswered(userId, postId, "201") # {}
               => [userId |-> userId, postId |-> postId] \in likes)
  /\ [][\A r \in DOMAIN likeRequests :
          (likeRequests[r].pc = "create" /\ likeRequests'[r].pc \in {"notify", "done"}
             /\ likeRequests'[r].status # "500") => likes' # likes]_vars
  /\ [][(likeRequests' # likeRequests /\ lastOp'.status \in {"400", "404", "500"})
          => UNCHANGED dbVars]_vars

C30_Witness ==
  \E r, q \in DOMAIN likeRequests :
    /\ r < q
    /\ likeRequests[r].userId = likeRequests[q].userId
    /\ likeRequests[r].postId = likeRequests[q].postId
    /\ likeRequests[r].status = "500"
    /\ likeRequests[q].status = "201"
    /\ Len(notifications) = 1
====
